---- MODULE Spec2Model ----
(***************************************************************************)
(* Voice assistant (main.py): wake-word session loop, command handler,     *)
(* spoken-operator normalisation and the restricted arithmetic evaluator.  *)
(* Text is modelled as a sequence of one-character strings.                *)
(***************************************************************************)
EXTENDS Integers, Sequences, FiniteSets, TLC

\* ------------------------------------------------------------------
\* Configuration (main.py lines 24-28)
\* ------------------------------------------------------------------
WAKE_WORD == <<"a","s","s","i","s","t","a","n","t">>

MAX_RETRIES == 2

\* ------------------------------------------------------------------
\* Python str primitives used by the program
\* ------------------------------------------------------------------
UpperCase == <<"A","B","C","D","E","F","G","H","I","J","K","L","M",
               "N","O","P","Q","R","S","T","U","V","W","X","Y","Z">>

LowerCase == <<"a","b","c","d","e","f","g","h","i","j","k","l","m",
               "n","o","p","q","r","s","t","u","v","w","x","y","z">>

Digits == <<"0","1","2","3","4","5","6","7","8","9">>

\* str.lower() on one character
LowerChar(c) ==
  IF \E i \in 1..26 : UpperCase[i] = c
  THEN LowerCase[CHOOSE i \in 1..26 : UpperCase[i] = c]
  ELSE c

\* str.lower()
Lower(s) == [i \in 1..Len(s) |-> LowerChar(s[i])]

\* str.isspace() on one character
IsSpace(c) == c = " "

\* str.isdigit() on one character
IsDigit(c) == \E i \in 1..10 : Digits[i] = c

DigitVal(c) == (CHOOSE i \in 1..10 : Digits[i] = c) - 1

\* s[i:] with a 1-based first index
Drop(s, i) == SubSeq(s, i, Len(s))

\* least and greatest element of a non-empty set of integers
Min(S) == CHOOSE i \in S : \A j \in S : i <= j

Max(S) == CHOOSE i \in S : \A j \in S : j <= i

\* s[lo:hi] over the positions in keep, empty when there are none
Span(s, keep) == IF keep = {} THEN <<>> ELSE SubSeq(s, Min(keep), Max(keep))

\* str.strip()
Strip(s) == Span(s, {i \in 1..Len(s) : ~IsSpace(s[i])})

\* str.startswith(p)
StartsWith(s, p) == Len(p) <= Len(s) /\ SubSeq(s, 1, Len(p)) = p

MinOrZero(S) == IF S = {} THEN 0 ELSE Min(S)

\* str.find(p): 1-based index of the first occurrence, 0 when absent
Find(s, p) ==
  MinOrZero({i \in 1..(Len(s) - Len(p) + 1) : SubSeq(s, i, i + Len(p) - 1) = p})

\* p in s
Contains(s, p) == Find(s, p) # 0

RECURSIVE Replace(_, _, _)
\* the occurrence of k at i replaced, then the rest of s (i = 0: none left)
ReplaceAt(s, k, v, i) ==
  IF i = 0 THEN s
  ELSE SubSeq(s, 1, i - 1) \o v \o Replace(Drop(s, i + Len(k)), k, v)

\* str.replace(k, v): every non-overlapping occurrence, left to right
Replace(s, k, v) == ReplaceAt(s, k, v, Find(s, k))

\* len(s.split()): number of whitespace-separated tokens
TokenCount(s) ==
  Cardinality({i \in 1..Len(s) : ~IsSpace(s[i]) /\ (i = 1 \/ IsSpace(s[i-1]))})

RECURSIVE SquashSpaces(_)
\* the run of spaces starting at i in t cut to one space (i = 0: none left)
SquashAt(t, i) == IF i = 0 THEN t ELSE SquashSpaces(SubSeq(t, 1, i) \o Drop(t, i + 2))

SquashStripped(t) == SquashAt(t, Find(t, <<" ", " ">>))

\* " ".join(str(text).split()) as done by speak()
SquashSpaces(s) == SquashStripped(Strip(s))

\* ------------------------------------------------------------------
\* Numbers: Python int and float values.  A float is kept as the exact
\* fraction n/d (d > 0, lowest terms); an int has d = 1.
\* ------------------------------------------------------------------
RECURSIVE GCD(_, _)
GCD(a, b) == IF b = 0 THEN a ELSE GCD(b, a % b)

Abs(x) == IF x < 0 THEN -x ELSE x

RECURSIVE IPow(_, _)
IPow(b, e) == IF e = 0 THEN 1 ELSE b * IPow(b, e - 1)

IntVal(n) == [t |-> "int", n |-> n, d |-> 1]

\* the fraction n/d as a float, d # 0
FloatVal(n, d) ==
  LET g  == GCD(Abs(n), Abs(d))
      sg == IF d < 0 THEN -1 ELSE 1
  IN [t |-> "float", n |-> sg * (n \div g), d |-> sg * (d \div g)]

\* a value that is not an int or a float (the constant of "...")
EllipsisVal == [t |-> "ellipsis", n |-> 0, d |-> 1]

\* a float the model does not compute: a power with a fractional exponent
InexactVal == [t |-> "inexact", n |-> 1, d |-> 1]

NoVal == [t |-> "none", n |-> 0, d |-> 1]

Ok(v) == [ok |-> TRUE, err |-> "", v |-> v]

Raise(e) == [ok |-> FALSE, err |-> e, v |-> NoVal]

\* int op int stays int; anything with a float is a float
Coerce(a, b, n, d) ==
  IF a.t = "int" /\ b.t = "int" THEN IntVal(n \div d) ELSE FloatVal(n, d)

\* Python's %: the result takes the sign of the divisor
PyMod(x, y) == IF y > 0 THEN x % y ELSE -((-x) % (-y))

Inexact(a, b) == a.t = "inexact" \/ b.t = "inexact"

\* operator.add
OpAdd(a, b) ==
  IF Inexact(a, b) THEN Ok(InexactVal)
  ELSE Ok(Coerce(a, b, a.n * b.d + b.n * a.d, a.d * b.d))

\* operator.sub
OpSub(a, b) ==
  IF Inexact(a, b) THEN Ok(InexactVal)
  ELSE Ok(Coerce(a, b, a.n * b.d - b.n * a.d, a.d * b.d))

\* operator.mul
OpMul(a, b) ==
  IF Inexact(a, b) THEN Ok(InexactVal)
  ELSE Ok(Coerce(a, b, a.n * b.n, a.d * b.d))

\* operator.truediv: always a float, ZeroDivisionError on a zero divisor
OpTrueDiv(a, b) ==
  IF b.t # "inexact" /\ b.n = 0 THEN Raise("ZeroDivisionError")
  ELSE IF Inexact(a, b) THEN Ok(InexactVal)
  ELSE Ok(FloatVal(a.n * b.d, a.d * b.n))

\* operator.mod: ZeroDivisionError on a zero divisor
OpMod(a, b) ==
  IF b.t # "inexact" /\ b.n = 0 THEN Raise("ZeroDivisionError")
  ELSE IF Inexact(a, b) THEN Ok(InexactVal)
  ELSE Ok(Coerce(a, b, PyMod(a.n * b.d, b.n * a.d), a.d * b.d))

\* operator.pow
OpPow(a, b) ==
  IF Inexact(a, b) THEN Ok(InexactVal)
  ELSE IF b.d # 1 THEN
         (IF a.n = 0 /\ b.n < 0 THEN Raise("ZeroDivisionError")
          ELSE IF a.n = 0 THEN Ok(FloatVal(0, 1))
          ELSE Ok(InexactVal))
  ELSE IF b.n >= 0 THEN Ok(Coerce(a, b, IPow(a.n, b.n), IPow(a.d, b.n)))
  ELSE IF a.n = 0 THEN Raise("ZeroDivisionError")
  ELSE Ok(FloatVal(IPow(a.d, -b.n), IPow(a.n, -b.n)))

\* operator.neg
OpNeg(a) == Ok([a EXCEPT !.n = IF a.t = "inexact" THEN 1 ELSE -a.n])

\* operator.pos
OpPos(a) == Ok(a)

\* the keys of ALLOWED_OPERATORS
ALLOWED_OPERATORS == {"Add", "Sub", "Mult", "Div", "Pow", "Mod", "USub", "UAdd"}

\* ALLOWED_OPERATORS[op_type](left, right)
ApplyBinary(o, a, b) ==
  CASE o = "Add"  -> OpAdd(a, b)
    [] o = "Sub"  -> OpSub(a, b)
    [] o = "Mult" -> OpMul(a, b)
    [] o = "Div"  -> OpTrueDiv(a, b)
    [] o = "Pow"  -> OpPow(a, b)
    [] o = "Mod"  -> OpMod(a, b)
    [] OTHER      -> Raise("TypeError")

\* ALLOWED_OPERATORS[op_type](operand)
ApplyUnary(o, a) ==
  CASE o = "USub" -> OpNeg(a)
    [] o = "UAdd" -> OpPos(a)
    [] OTHER      -> Raise("TypeError")

\* ------------------------------------------------------------------
\* ast.parse(expr, mode="eval") on the characters the handler lets through
\* ------------------------------------------------------------------
Tok(k, s, v) == [k |-> k, s |-> s, v |-> v]

\* last index of the run of digits starting at i (i - 1 when there is none)
RunEnd(s, i) ==
  CHOOSE j \in (i - 1)..Len(s) :
    /\ \A m \in i..j : IsDigit(s[m])
    /\ (j = Len(s) \/ ~IsDigit(s[j + 1]))

RECURSIVE DigitsVal(_, _, _)
DigitsVal(s, lo, hi) ==
  IF hi < lo THEN 0 ELSE 10 * DigitsVal(s, lo, hi - 1) + DigitVal(s[hi])

\* a float literal: digits i..j, the point, digits j+2..m
ScanFloat(s, i, j, m) ==
  [tok  |-> Tok("num", "", FloatVal(DigitsVal(s, i, j) * IPow(10, m - j - 1)
                                     + DigitsVal(s, j + 2, m), IPow(10, m - j - 1))),
   next |-> m + 1]

\* an int literal: digits i..j, not allowed to start with 0 unless it is zero
ScanInt(s, i, j) ==
  IF j > i /\ s[i] = "0" /\ \E m \in i..j : s[m] # "0"
  THEN [tok |-> Tok("bad", "", NoVal), next |-> j + 1]
  ELSE [tok |-> Tok("num", "", IntVal(DigitsVal(s, i, j))), next |-> j + 1]

\* the literal whose leading digits are i..j
ScanFrom(s, i, j) ==
  IF j < Len(s) /\ s[j + 1] = "."
  THEN ScanFloat(s, i, j, RunEnd(s, j + 2))
  ELSE ScanInt(s, i, j)

\* the number literal starting at i: [tok, next]
ScanNumber(s, i) == ScanFrom(s, i, RunEnd(s, i))

At(s, i) == IF i <= Len(s) THEN s[i] ELSE ""

RECURSIVE Tokenize(_, _)
\* the scanned literal r, then the tokens after it
TokenizeAfter(s, r) == <<r.tok>> \o Tokenize(s, r.next)

Tokenize(s, i) ==
  IF i > Len(s) THEN <<>>
  ELSE LET c == s[i] IN
    IF IsSpace(c) THEN Tokenize(s, i + 1)
    ELSE IF IsDigit(c) \/ (c = "." /\ IsDigit(At(s, i + 1)))
      THEN TokenizeAfter(s, ScanNumber(s, i))
    ELSE IF c = "." /\ At(s, i + 1) = "." /\ At(s, i + 2) = "."
      THEN <<Tok("op", "...", NoVal)>> \o Tokenize(s, i + 3)
    ELSE IF c = "*" /\ At(s, i + 1) = "*"
      THEN <<Tok("op", "**", NoVal)>> \o Tokenize(s, i + 2)
    ELSE IF c = "/" /\ At(s, i + 1) = "/"
      THEN <<Tok("op", "//", NoVal)>> \o Tokenize(s, i + 2)
    ELSE IF c \in {"+", "-", "*", "/", "%", "(", ")"}
      THEN <<Tok("op", c, NoVal)>> \o Tokenize(s, i + 1)
    ELSE <<Tok("bad", "", NoVal)>> \o Tokenize(s, i + 1)

\* syntax-tree nodes
Constant(v) == [k |-> "Constant", v |-> v]

BinOp(o, l, r) == [k |-> "BinOp", op |-> o, left |-> l, right |-> r]

UnaryOp(o, x) == [k |-> "UnaryOp", op |-> o, operand |-> x]

Call(f, args) == [k |-> "Call", func |-> f, args |-> args]

Starred(x) == [k |-> "Starred", value |-> x]

Keyword(x) == [k |-> "keyword", value |-> x]

TupleNode == [k |-> "Tuple"]

Parsed(n, p) == [ok |-> TRUE, node |-> n, pos |-> p]

SyntaxError == [ok |-> FALSE, node |-> [k |-> "None"], pos |-> 0]

IsOp(t, p, o) == p <= Len(t) /\ t[p].k = "op" /\ t[p].s = o

BinOpName(s) ==
  CASE s = "+" -> "Add" [] s = "-" -> "Sub" [] s = "*" -> "Mult" [] s = "/" -> "Div"
    [] s = "//" -> "FloorDiv" [] s = "%" -> "Mod" [] s = "**" -> "Pow"

NoNode == [k |-> "None"]

\* The expression grammar, one rule per case; left is the operand parsed so
\* far for the rules that extend it.
RECURSIVE Parse(_, _, _, _)
Parse(rule, t, left, p) ==
  CASE rule = "sum" ->
         \* sum: term (('+' | '-') term)*
         LET r == Parse("term", t, NoNode, p)
         IN IF r.ok THEN Parse("sum_rest", t, r.node, r.pos) ELSE SyntaxError
    [] rule = "sum_rest" ->
         IF IsOp(t, p, "+") \/ IsOp(t, p, "-")
         THEN LET r == Parse("term", t, NoNode, p + 1)
              IN IF r.ok
                 THEN Parse("sum_rest", t, BinOp(BinOpName(t[p].s), left, r.node), r.pos)
                 ELSE SyntaxError
         ELSE Parsed(left, p)
    [] rule = "term" ->
         \* term: factor (('*' | '/' | '//' | '%') factor)*
         LET r == Parse("factor", t, NoNode, p)
         IN IF r.ok THEN Parse("term_rest", t, r.node, r.pos) ELSE SyntaxError
    [] rule = "term_rest" ->
         IF IsOp(t, p, "*") \/ IsOp(t, p, "/") \/ IsOp(t, p, "//") \/ IsOp(t, p, "%")
         THEN LET r == Parse("factor", t, NoNode, p + 1)
              IN IF r.ok
                 THEN Parse("term_rest", t, BinOp(BinOpName(t[p].s), left, r.node), r.pos)
                 ELSE SyntaxError
         ELSE Parsed(left, p)
    [] rule = "factor" ->
         \* factor: ('+' | '-') factor | power
         IF IsOp(t, p, "+") \/ IsOp(t, p, "-")
         THEN LET r == Parse("factor", t, NoNode, p + 1)
              IN IF r.ok
                 THEN Parsed(UnaryOp(IF t[p].s = "-" THEN "USub" ELSE "UAdd", r.node), r.pos)
                 ELSE SyntaxError
         ELSE Parse("power", t, NoNode, p)
    [] rule = "power" ->
         \* power: primary ['**' factor]
         LET r == Parse("primary", t, NoNode, p)
         IN IF ~r.ok THEN SyntaxError
            ELSE IF IsOp(t, r.pos, "**")
            THEN LET e == Parse("factor", t, NoNode, r.pos + 1)
                 IN IF e.ok THEN Parsed(BinOp("Pow", r.node, e.node), e.pos) ELSE SyntaxError
            ELSE r
    [] rule = "primary" ->
         \* primary: atom ('(' [argument] ')')*
         LET r == Parse("atom", t, NoNode, p)
         IN IF r.ok THEN Parse("trailers", t, r.node, r.pos) ELSE SyntaxError
    [] rule = "trailers" ->
         IF ~IsOp(t, p, "(") THEN Parsed(left, p)
         ELSE IF IsOp(t, p + 1, ")") THEN Parse("trailers", t, Call(left, <<>>), p + 2)
         ELSE LET star == IsOp(t, p + 1, "*") \/ IsOp(t, p + 1, "**")
                  r    == Parse("sum", t, NoNode, IF star THEN p + 2 ELSE p + 1)
                  arg  == IF IsOp(t, p + 1, "*") THEN Starred(r.node)
                          ELSE IF IsOp(t, p + 1, "**") THEN Keyword(r.node)
                          ELSE r.node
              IN IF r.ok /\ IsOp(t, r.pos, ")")
                 THEN Parse("trailers", t, Call(left, <<arg>>), r.pos + 1)
                 ELSE SyntaxError
    [] rule = "atom" ->
         \* atom: NUMBER | '...' | '(' ')' | '(' sum ')'
         IF p > Len(t) THEN SyntaxError
         ELSE IF t[p].k = "num" THEN Parsed(Constant(t[p].v), p + 1)
         ELSE IF IsOp(t, p, "...") THEN Parsed(Constant(EllipsisVal), p + 1)
         ELSE IF IsOp(t, p, "(")
         THEN IF IsOp(t, p + 1, ")") THEN Parsed(TupleNode, p + 2)
              ELSE LET r == Parse("sum", t, NoNode, p + 1)
                   IN IF r.ok /\ IsOp(t, r.pos, ")") THEN Parsed(r.node, r.pos + 1)
                      ELSE SyntaxError
         ELSE SyntaxError

\* the parse r is the whole expression when it ends where the tokens t end
Complete(t, r) == IF r.ok /\ r.pos = Len(t) + 1 THEN r ELSE SyntaxError

ParseTokens(t) == Complete(t, Parse("sum", t, NoNode, 1))

\* ast.parse(expr, mode="eval"): the body of the Expression node
AstParse(s) == ParseTokens(Tokenize(s, 1))

\* ------------------------------------------------------------------
\* safe_eval
\* ------------------------------------------------------------------
RECURSIVE Eval(_)
\* variant: floor division is let through as a ninth operator
EvalWithFloorDiv(node) ==
  IF node.k = "Constant"
  THEN IF node.v.t \in {"int", "float"} THEN Ok(node.v) ELSE Raise("ValueError")
  ELSE IF node.k = "BinOp"
  THEN LET l == Eval(node.left)
       IN IF ~l.ok THEN l
          ELSE LET r == Eval(node.right)
               IN IF ~r.ok THEN r
                  ELSE IF node.op \in ALLOWED_OPERATORS
                       THEN ApplyBinary(node.op, l.v, r.v)
                       ELSE IF node.op = "FloorDiv"
                       THEN IF r.v.n = 0 THEN Raise("ZeroDivisionError")
                            ELSE Ok(Coerce(l.v, r.v,
                                           (l.v.n * r.v.d) \div (l.v.d * r.v.n), 1))
                       ELSE Raise("ValueError")
  ELSE IF node.k = "UnaryOp"
  THEN LET x == Eval(node.operand)
       IN IF ~x.ok THEN x
          ELSE IF node.op \in ALLOWED_OPERATORS
               THEN ApplyUnary(node.op, x.v)
               ELSE Raise("ValueError")
  ELSE Raise("ValueError")

Eval(node) ==
  IF node.k = "Constant"
  THEN IF node.v.t \in {"int", "float"} THEN Ok(node.v) ELSE Raise("ValueError")
  ELSE IF node.k = "BinOp"
  THEN LET l == Eval(node.left)
       IN IF ~l.ok THEN l
          ELSE LET r == Eval(node.right)
               IN IF ~r.ok THEN r
                  ELSE IF node.op \in ALLOWED_OPERATORS
                       THEN ApplyBinary(node.op, l.v, r.v)
                       ELSE Raise("ValueError")
  ELSE IF node.k = "UnaryOp"
  THEN LET x == Eval(node.operand)
       IN IF ~x.ok THEN x
          ELSE IF node.op \in ALLOWED_OPERATORS
               THEN ApplyUnary(node.op, x.v)
               ELSE Raise("ValueError")
  ELSE Raise("ValueError")

\* lines 106-135: _eval on the parsed tree, ValueError when there is none
EvalParsed(r) == IF ~r.ok THEN Raise("ValueError") ELSE Eval(r.node)

\* lines 103-135
SafeEvalStripped(expr) ==
  IF expr = <<>> THEN Raise("ValueError") ELSE EvalParsed(AstParse(expr))

SafeEval(expr0) == SafeEvalStripped(Strip(Replace(expr0, <<",">>, <<>>)))

\* ------------------------------------------------------------------
\* Effects of one call, in program order.  An effect is a record
\* [e, tag, aloud, s, v]: what was done, which message or target, whether it
\* was spoken aloud, the text involved and the number involved.
\* ------------------------------------------------------------------
Effect(e, tag, aloud, s, v) == [e |-> e, tag |-> tag, aloud |-> aloud, s |-> s, v |-> v]

\* speak(text, say_aloud): the message is a fixed text (tag) around a payload s,
\* whose whitespace is normalised with the rest of the message
Speak(tag, s, aloud) == Effect("speak", tag, aloud, SquashSpaces(s), NoVal)

\* print(...) of a diagnostic
PrintLog(tag, s) == Effect("print", tag, FALSE, s, NoVal)

\* webbrowser.open(url)
BrowserOpen(site) == Effect("open", site, FALSE, <<>>, NoVal)

\* ------------------------------------------------------------------
\* Definition lookup (Wikipedia -> DuckDuckGo fallback).  src says which
\* source, if any, has an answer: "wikipedia", "duckduckgo" or "none".
\* ------------------------------------------------------------------
Sources == {"wikipedia", "duckduckgo", "none"}

LookupStripped(term, src) ==
  IF term = <<>> THEN [found |-> FALSE, ev |-> <<>>]
  ELSE IF src = "wikipedia"
  THEN [found |-> TRUE,
        ev |-> <<Speak("Let me look that up for you", term, FALSE),
                 Effect("wikipedia_summary", "found", FALSE, term, NoVal)>>]
  ELSE [found |-> src = "duckduckgo",
        ev |-> <<Speak("Let me look that up for you", term, FALSE),
                 Effect("wikipedia_summary", "none", FALSE, term, NoVal),
                 Effect("duckduckgo_instant_answer",
                        IF src = "duckduckgo" THEN "found" ELSE "none", FALSE, term, NoVal)>>]

LookupDefinition(term0, src) == LookupStripped(Strip(term0), src)

\* ------------------------------------------------------------------
\* Natural language helpers
\* ------------------------------------------------------------------
RECURSIVE NatStr(_)
NatStr(n) == IF n < 10 THEN <<Digits[n + 1]>> ELSE NatStr(n \div 10) \o <<Digits[(n % 10) + 1]>>

\* str(int)
IntStr(n) == IF n < 0 THEN <<"-">> \o NatStr(-n) ELSE NatStr(n)

\* digits of the fraction r/d (0 <= r < d), at most k of them
RECURSIVE FracDigits(_, _, _)
FracDigits(r, d, k) ==
  IF r = 0 \/ k = 0 THEN <<>>
  ELSE <<Digits[((10 * r) \div d) + 1]>> \o FracDigits((10 * r) % d, d, k - 1)

\* places shown for a float whose decimal expansion does not end
FloatPlaces == 16

\* str(float) of a float with a fractional part: exact when the expansion ends
\* within FloatPlaces places, cut there otherwise
FloatStr(v) ==
  (IF v.n < 0 THEN <<"-">> ELSE <<>>) \o NatStr(Abs(v.n) \div v.d) \o <<".">>
    \o FracDigits(Abs(v.n) % v.d, v.d, FloatPlaces)

\* prettify_number: a float with no fractional part is shown as an int
PrettifyNumber(v) ==
  IF v.t = "float" /\ v.d = 1 THEN [text |-> IntStr(v.n), v |-> IntVal(v.n)]
  ELSE IF v.t = "int" THEN [text |-> IntStr(v.n), v |-> v]
  ELSE IF v.t = "float" THEN [text |-> FloatStr(v), v |-> v]
  ELSE [text |-> <<>>, v |-> v]

OPERATOR_HINTS ==
  <<<<"+">>,
    <<"-">>,
    <<"*">>,
    <<"/">>,
    <<"%">>,
    <<"p","l","u","s">>,
    <<"m","i","n","u","s">>,
    <<"t","i","m","e","s">>,
    <<"d","i","v","i","d","e","d">>,
    <<"d","i","v","i","d","e">>,
    <<"o","v","e","r">>,
    <<"m","o","d">>,
    <<"p","o","w","e","r">>,
    <<"*","*">>>>

\* any(p in s for p in ps)
ContainsAny(s, ps) == \E i \in 1..Len(ps) : Contains(s, ps[i])

\* any(s.startswith(p) for p in ps)
StartsWithAny(s, ps) == \E i \in 1..Len(ps) : StartsWith(s, ps[i])

IsArithmeticLower(tokenized) ==
  \/ \E i \in 1..Len(tokenized) : IsDigit(tokenized[i])
  \/ ContainsAny(tokenized, OPERATOR_HINTS)

IsProbablyArithmetic(text) == IsArithmeticLower(Lower(text))

\* ------------------------------------------------------------------
\* Command handling
\* ------------------------------------------------------------------
EXIT_WORDS ==
  <<<<"e","x","i","t">>,
    <<"q","u","i","t">>,
    <<"s","t","o","p">>,
    <<"g","o","o","d","b","y","e">>,
    <<"b","y","e">>>>

OPEN_YOUTUBE == <<"o","p","e","n"," ","y","o","u","t","u","b","e">>

YOUTUBE == <<"y","o","u","t","u","b","e">>

OPEN_GOOGLE == <<"o","p","e","n"," ","g","o","o","g","l","e">>

GOOGLE == <<"g","o","o","g","l","e">>

\* the triggers that make a text an arithmetic candidate (line 238)
ARITHMETIC_STARTS ==
  <<<<"c","a","l","c","u","l","a","t","e">>,
    <<"w","h","a","t"," ","i","s">>,
    <<"e","v","a","l","u","a","t","e">>,
    <<"c","o","m","p","u","t","e">>>>

\* the leading trigger words removed, in this order (line 241)
TRIGGERS ==
  <<<<"c","a","l","c","u","l","a","t","e">>,
    <<"e","v","a","l","u","a","t","e">>,
    <<"c","o","m","p","u","t","e">>,
    <<"w","h","a","t"," ","i","s">>>>

\* variant: the longer phrases first
REPLACEMENTS_LongerFirst ==
  <<<<<<" ","m","u","l","t","i","p","l","i","e","d"," ","b","y"," ">>, <<" ","*"," ">>>>,
    <<<<" ","d","i","v","i","d","e","d"," ","b","y"," ">>, <<" ","/"," ">>>>,
    <<<<" ","t","o"," ","t","h","e"," ","p","o","w","e","r"," ","o","f"," ">>, <<"*","*">>>>,
    <<<<" ","p","o","w","e","r"," ","o","f"," ">>, <<"*","*">>>>,
    <<<<" ","p","l","u","s"," ">>, <<" ","+"," ">>>>,
    <<<<" ","m","i","n","u","s"," ">>, <<" ","-"," ">>>>,
    <<<<" ","t","i","m","e","s"," ">>, <<" ","*"," ">>>>,
    <<<<" ","o","v","e","r"," ">>, <<" ","/"," ">>>>,
    <<<<" ","m","o","d","u","l","o"," ">>, <<" ","%"," ">>>>,
    <<<<" ","m","o","d"," ">>, <<" ","%"," ">>>>>>

\* the replacements dict, in insertion order: <<spoken, symbol>>
REPLACEMENTS ==
  <<<<<<" ","p","l","u","s"," ">>, <<" ","+"," ">>>>,
    <<<<" ","m","i","n","u","s"," ">>, <<" ","-"," ">>>>,
    <<<<" ","t","i","m","e","s"," ">>, <<" ","*"," ">>>>,
    <<<<" ","m","u","l","t","i","p","l","i","e","d"," ","b","y"," ">>, <<" ","*"," ">>>>,
    <<<<" ","d","i","v","i","d","e","d"," ","b","y"," ">>, <<" ","/"," ">>>>,
    <<<<" ","o","v","e","r"," ">>, <<" ","/"," ">>>>,
    <<<<" ","m","o","d"," ">>, <<" ","%"," ">>>>,
    <<<<" ","m","o","d","u","l","o"," ">>, <<" ","%"," ">>>>,
    <<<<" ","t","o"," ","t","h","e"," ","p","o","w","e","r"," ","o","f"," ">>, <<"*","*">>>>,
    <<<<" ","p","o","w","e","r"," ","o","f"," ">>, <<"*","*">>>>>>

\* variant: the comma is let through the gate
ALLOWED_CHARS_WithComma ==
  {"0","1","2","3","4","5","6","7","8","9","+","-","*","/","(",")","."," ","%",","}

ALLOWED_CHARS == {"0","1","2","3","4","5","6","7","8","9","+","-","*","/","(",")","."," ","%"}

DEFINITION_PREFIXES ==
  <<<<"d","e","f","i","n","e"," ">>,
    <<"d","e","f","i","n","i","t","i","o","n"," ","o","f"," ">>,
    <<"w","h","a","t"," ","i","s"," ">>,
    <<"w","h","a","t","'","s"," ">>,
    <<"t","e","l","l"," ","m","e"," ","a","b","o","u","t"," ">>>>

ARTICLES == <<<<"a"," ">>,
            <<"a","n"," ">>,
            <<"t","h","e"," ">>>>

\* for trig in TRIGGERS: if expr.startswith(trig): expr = expr[len(trig):].strip(); break
StripTrigger(text) ==
  IF StartsWithAny(text, TRIGGERS)
  THEN LET i == CHOOSE i \in 1..Len(TRIGGERS) :
                  /\ StartsWith(text, TRIGGERS[i])
                  /\ \A j \in 1..(i - 1) : ~StartsWith(text, TRIGGERS[j])
       IN Strip(Drop(text, Len(TRIGGERS[i]) + 1))
  ELSE text

\* for k, v in replacements.items(): expr_for_eval = expr_for_eval.replace(k, v)
RECURSIVE ApplyReplacements(_, _, _)
ApplyReplacements(s, table, i) ==
  IF i > Len(table) THEN s
  ELSE ApplyReplacements(Replace(s, table[i][1], table[i][2]), table, i + 1)

\* pad with spaces, replace the spoken operators, trim (lines 259-262)
Normalize(expr) == Strip(ApplyReplacements(<<" ">> \o expr \o <<" ">>, REPLACEMENTS, 1))

\* all(ch in allowed_chars for ch in expr_for_eval)
AllAllowed(s) == \A i \in 1..Len(s) : s[i] \in ALLOWED_CHARS

\* lines 269-271: the result is spoken and the handler returns
ArithmeticSpoken(expr_for_eval, v, pretty) ==
  [done |-> TRUE,
   ev |-> <<Effect("safe_eval", "ok", FALSE, expr_for_eval, v),
            Effect("speak", "The result is", TRUE, pretty.text, pretty.v)>>]

\* variant: a failed evaluation ends the handler instead of falling through
ArithmeticEvaluatedNoFallThrough(expr_for_eval, result) ==
  IF result.ok
  THEN ArithmeticSpoken(expr_for_eval, result.v, PrettifyNumber(result.v))
  ELSE [done |-> TRUE,
        ev |-> <<Effect("safe_eval", result.err, FALSE, expr_for_eval, NoVal),
                 PrintLog("[Arithmetic] Couldn't evaluate", expr_for_eval)>>]

\* lines 267-274: result is what safe_eval returned or raised
ArithmeticEvaluated(expr_for_eval, result) ==
  IF result.ok
  THEN ArithmeticSpoken(expr_for_eval, result.v, PrettifyNumber(result.v))
  ELSE [done |-> FALSE,
        ev |-> <<Effect("safe_eval", result.err, FALSE, expr_for_eval, NoVal),
                 PrintLog("[Arithmetic] Couldn't evaluate", expr_for_eval)>>]

\* lines 264-277
ArithmeticAttempt(expr_for_eval) ==
  IF AllAllowed(expr_for_eval)
  THEN ArithmeticEvaluated(expr_for_eval, SafeEval(expr_for_eval))
  ELSE [done |-> FALSE,
        ev |-> <<PrintLog("[Arithmetic] Expression contains unsafe characters",
                          expr_for_eval)>>]

\* the arithmetic attempt (lines 237-277): done says the handler returned here
ArithmeticTry(text) ==
  IF IsProbablyArithmetic(text) \/ StartsWithAny(text, ARITHMETIC_STARTS)
  THEN ArithmeticAttempt(Normalize(StripTrigger(text)))
  ELSE [done |-> FALSE, ev |-> <<>>]

\* for art in ARTICLES: if term.startswith(art): term = term[len(art):]
RECURSIVE StripArticles(_, _)
StripArticles(term, i) ==
  IF i > Len(ARTICLES) THEN term
  ELSE IF StartsWith(term, ARTICLES[i])
       THEN StripArticles(Drop(term, Len(ARTICLES[i]) + 1), i + 1)
       ELSE StripArticles(term, i + 1)

\* the term of a prefixed definition query (lines 282-285)
DefinitionTerm(text) ==
  LET i == CHOOSE i \in 1..Len(DEFINITION_PREFIXES) :
             /\ StartsWith(text, DEFINITION_PREFIXES[i])
             /\ \A j \in 1..(i - 1) : ~StartsWith(text, DEFINITION_PREFIXES[j])
  IN StripArticles(Strip(Drop(text, Len(DEFINITION_PREFIXES[i]) + 1)), 1)

\* variant: fewer than three tokens
IsShortPhraseUnderThree(text) == TokenCount(text) < 3

\* len(text.split()) <= 3 (line 299)
IsShortPhrase(text) == TokenCount(text) <= 3

\* lines 289-296: defn is what lookup_definition(term) gave
PrefixedAnswer(term, defn) ==
  <<Speak("Searching for", term, TRUE)>> \o defn.ev \o
  <<IF defn.found THEN Speak("definition", <<>>, TRUE)
    ELSE Speak("I couldn't find a short definition", <<>>, TRUE)>>

\* lines 286-296
PrefixedDefinition(term, src) ==
  IF term = <<>> THEN <<Speak("What would you like me to define?", <<>>, TRUE)>>
  ELSE PrefixedAnswer(term, LookupDefinition(term, src))

\* variant: a short phrase with no definition returns without the apology
ShortPhraseAnswerQuietMiss(defn) ==
  IF defn.found THEN defn.ev \o <<Speak("definition", <<>>, TRUE)>>
  ELSE defn.ev

\* lines 300-306: defn is what lookup_definition(text) gave
ShortPhraseAnswer(defn) ==
  IF defn.found THEN defn.ev \o <<Speak("definition", <<>>, TRUE)>>
  ELSE defn.ev \o <<Speak("Sorry, I didn't quite understand", <<>>, TRUE)>>

\* definition prefixes, the short-phrase attempt and the final apology
\* (lines 279-307)
DefinitionTry(text, src) ==
  IF StartsWithAny(text, DEFINITION_PREFIXES)
  THEN PrefixedDefinition(DefinitionTerm(text), src)
  ELSE IF IsShortPhrase(text)
  THEN ShortPhraseAnswer(LookupDefinition(text, src))
  ELSE <<Speak("Sorry, I didn't quite understand", <<>>, TRUE)>>

\* variant: the handler goes on to the definition rules after a spoken result
AfterArithmeticGoesOn(text, src, a) ==
  [ret |-> "None", ev |-> a.ev \o DefinitionTry(text, src)]

\* lines 237-307: a is the outcome of the arithmetic attempt
AfterArithmetic(text, src, a) ==
  IF a.done THEN [ret |-> "None", ev |-> a.ev]
  ELSE [ret |-> "None", ev |-> a.ev \o DefinitionTry(text, src)]

\* variant: the site rules are tried before the exit words
HandleTextSitesFirst(text, src) ==
  IF Contains(text, OPEN_YOUTUBE) \/ text = YOUTUBE
  THEN [ret |-> "None",
        ev |-> <<Speak("Opening YouTube for you", <<>>, TRUE), BrowserOpen("youtube")>>]
  ELSE IF Contains(text, OPEN_GOOGLE) \/ text = GOOGLE
  THEN [ret |-> "None",
        ev |-> <<Speak("Opening Google for you", <<>>, TRUE), BrowserOpen("google")>>]
  ELSE IF ContainsAny(text, EXIT_WORDS)
  THEN [ret |-> "exit", ev |-> <<Speak("Goodbye", <<>>, TRUE)>>]
  ELSE AfterArithmetic(text, src, ArithmeticTry(text))

\* variant: the definition prefixes are tried before the arithmetic attempt
HandleTextDefinitionFirst(text, src) ==
  IF ContainsAny(text, EXIT_WORDS)
  THEN [ret |-> "exit", ev |-> <<Speak("Goodbye", <<>>, TRUE)>>]
  ELSE IF Contains(text, OPEN_YOUTUBE) \/ text = YOUTUBE
  THEN [ret |-> "None",
        ev |-> <<Speak("Opening YouTube for you", <<>>, TRUE), BrowserOpen("youtube")>>]
  ELSE IF Contains(text, OPEN_GOOGLE) \/ text = GOOGLE
  THEN [ret |-> "None",
        ev |-> <<Speak("Opening Google for you", <<>>, TRUE), BrowserOpen("google")>>]
  ELSE IF StartsWithAny(text, DEFINITION_PREFIXES)
  THEN [ret |-> "None", ev |-> DefinitionTry(text, src)]
  ELSE AfterArithmetic(text, src, ArithmeticTry(text))

\* lines 222-307 on the stripped, lower-case text
HandleText(text, src) ==
  IF ContainsAny(text, EXIT_WORDS)
  THEN [ret |-> "exit", ev |-> <<Speak("Goodbye", <<>>, TRUE)>>]
  ELSE IF Contains(text, OPEN_YOUTUBE) \/ text = YOUTUBE
  THEN [ret |-> "None",
        ev |-> <<Speak("Opening YouTube for you", <<>>, TRUE), BrowserOpen("youtube")>>]
  ELSE IF Contains(text, OPEN_GOOGLE) \/ text = GOOGLE
  THEN [ret |-> "None",
        ev |-> <<Speak("Opening Google for you", <<>>, TRUE), BrowserOpen("google")>>]
  ELSE AfterArithmetic(text, src, ArithmeticTry(text))

\* handle_user_command: the value returned and the effects, in order
HandleUserCommand(command_text, src) ==
  IF command_text = <<>>
  THEN [ret |-> "None", ev |-> <<Speak("I didn't catch that", <<>>, TRUE)>>]
  ELSE HandleText(Lower(Strip(command_text)), src)

\* ------------------------------------------------------------------
\* Speech recognizer: listen_from_mic.  The outcome of one listen is
\* [kind, raw]: recognised text, a timeout, unintelligible audio
\* (UnknownValueError) or a speech-service failure (RequestError).
\* ------------------------------------------------------------------
None == [some |-> FALSE, text |-> <<>>]

Str(t) == [some |-> TRUE, text |-> t]

\* Python truthiness of a str-or-None
Truthy(x) == x.some /\ x.text # <<>>

ListenFromMic(r) ==
  IF r.kind = "text"
  THEN [value |-> Str(Lower(r.raw)),
        ev |-> <<PrintLog("[Listening] Ready", <<>>), PrintLog("[You]", r.raw)>>]
  ELSE IF r.kind = "timeout"
  THEN [value |-> None,
        ev |-> <<PrintLog("[Listening] Ready", <<>>),
                 PrintLog("[Listening] No speech detected (timeout)", <<>>)>>]
  ELSE IF r.kind = "unknown_value"
  THEN [value |-> None,
        ev |-> <<PrintLog("[Listening] Ready", <<>>),
                 PrintLog("[Listening] Sorry - I couldn't understand that", <<>>)>>]
  ELSE [value |-> None,
        ev |-> <<PrintLog("[Listening] Ready", <<>>),
                 PrintLog("[Listening] Speech service error", <<>>),
                 Speak("I am having trouble reaching the speech service", <<>>, TRUE)>>]

\* ------------------------------------------------------------------
\* What the user may say in a session
\* ------------------------------------------------------------------
\* commands, one or more for each way handle_user_command can end
SessionCommands ==
  {<<"s","t","o","p">>,
   <<"w","h","a","t"," ","i","s"," ","2","3"," ","t","i","m","e","s"," ","7">>,
   <<"1","0"," ","/"," ","0">>,
   <<"o","p","e","n"," ","y","o","u","t","u","b","e">>,
   <<"d","e","f","i","n","e"," ","t","h","e"," ","m","o","o","n">>,
   <<"m","o","o","n">>,
   <<"t","e","l","l"," ","u","s"," ","a"," ","j","o","k","e"," ","n","o","w">>}

\* ways of saying only the wake word
BareWake ==
  {<<"a","s","s","i","s","t","a","n","t">>,
   <<"H","e","y"," ","A","s","s","i","s","t","a","n","t"," ">>,
   <<"s","t","o","p"," ","a","s","s","i","s","t","a","n","t">>}

\* what may come before the wake word when a command follows it
WakePrefixes == {<<>>, <<"H","e","y"," ">>}

Utterances ==
  SessionCommands \cup BareWake \cup {<<>>}
    \cup {a \o WAKE_WORD \o <<" ">> \o c : a \in WakePrefixes, c \in SessionCommands}
    \cup {<<"a","s","s","i","s","t","a","n","t"," "," ","a","s","s","i","s","t","a","n","t"," ","s","t","o","p">>,
          <<"a","s","s","i","s","t","a","n","t"," ","m","o","o","n"," ","a","s","s","i","s","t","a","n","t"," ","x","y","z","z","y">>}

ListenOutcomes ==
  {[kind |-> "text", raw |-> u] : u \in Utterances}
    \cup {[kind |-> k, raw |-> <<>>] : k \in {"timeout", "unknown_value", "request_error"}}

\* ------------------------------------------------------------------
\* The main loop.
\*   pc       where main is: "start" (before the greeting), "idle" (line 318,
\*            the wake word is required), "followup" (line 332, inside the
\*            retry loop), "returned" (main has returned), "exited"
\*            (sys.exit(0) at line 352), "killed" (a KeyboardInterrupt left
\*            main uncaught)
\*   attempt  the index of the retry loop
\*   spoken   what the last listen at line 318 returned
\*   follow   what the last listen at line 332 returned
\*   dispatch the call of handle_user_command made by the last step, if any
\*   ev       the effects of the last step, in order
\*   last     the last step taken
\*   silent, followCalls   the follow-up listens that returned nothing, and the
\*            calls of handle_user_command, since the last listen at line 318
\* ------------------------------------------------------------------
VARIABLES pc, attempt, spoken, follow, dispatch, ev, last, silent, followCalls

vars == <<pc, attempt, spoken, follow, dispatch, ev, last, silent, followCalls>>

NoDispatch == [called |-> FALSE, from |-> "", text |-> <<>>, src |-> "", ret |-> "", ev |-> <<>>]

Dispatched(from, text, src, h) ==
  [called |-> TRUE, from |-> from, text |-> text, src |-> src, ret |-> h.ret, ev |-> h.ev]

\* variant: the result of the handler is ignored and the loop carries on
AfterDispatchKeepsListening(ret) == "idle"

\* if result == "exit": return (lines 335-336 and 344-345); otherwise the loop
\* goes back to the listen at line 318
AfterDispatch(ret) == IF ret = "exit" THEN "returned" ELSE "idle"

\* variant: one iteration too many, range(MAX_RETRIES + 1)
MoreAttemptsOneExtra(a) == a + 1 < MAX_RETRIES + 1

\* for attempt in range(MAX_RETRIES): whether another iteration follows
MoreAttempts(a) == a + 1 < MAX_RETRIES

\* last index at which p occurs in s, 0 when absent
FindLast(s, p) ==
  LET hits == {i \in 1..(Len(s) - Len(p) + 1) : SubSeq(s, i, i + Len(p) - 1) = p}
  IN IF hits = {} THEN 0 ELSE CHOOSE i \in hits : \A j \in hits : j <= i

\* variant: the text after the last occurrence, spoken.rsplit(WAKE_WORD, 1)[1]
AfterLastWakeWord(s) == Strip(Drop(s, FindLast(s, WAKE_WORD) + Len(WAKE_WORD)))

\* spoken.split(WAKE_WORD, 1)[1].strip()
AfterWakeWord(s) == Strip(Drop(s, Find(s, WAKE_WORD) + Len(WAKE_WORD)))

Init ==
  /\ pc = "start"
  /\ attempt = 0
  /\ spoken = None
  /\ follow = None
  /\ dispatch = NoDispatch
  /\ ev = <<>>
  /\ last = "init"
  /\ silent = 0
  /\ followCalls = 0

\* line 313: the greeting
Greet ==
  /\ pc = "start"
  /\ pc' = "idle"
  /\ ev' = <<Speak("Hi - I'm your assistant", <<>>, TRUE)>>
  /\ last' = "greet"
  /\ UNCHANGED <<attempt, spoken, follow, dispatch, silent, followCalls>>

\* lines 343-345: the command after the wake word has been handled, h is what
\* handle_user_command returned and did
IdleDispatch(l, after, src, h) ==
  /\ pc' = AfterDispatch(h.ret)
  /\ dispatch' = Dispatched("idle", after, src, h)
  /\ ev' = l.ev \o h.ev

\* lines 326-345: the wake word was heard, after is what follows it
IdleWake(l, after, src) ==
  IF after = <<>>
  THEN /\ pc' = "followup"
       /\ dispatch' = NoDispatch
       /\ ev' = l.ev \o <<Speak("Yes? What can I help you with?", <<>>, TRUE)>>
  ELSE IdleDispatch(l, after, src, HandleUserCommand(after, src))

\* lines 319-347: l is what listen_from_mic returned and did
IdleHeard(l, src) ==
  /\ spoken' = l.value
  /\ IF ~Truthy(l.value)
     THEN /\ pc' = "idle"
          /\ dispatch' = NoDispatch
          /\ ev' = l.ev
     ELSE IF Contains(l.value.text, WAKE_WORD)
     THEN IdleWake(l, AfterWakeWord(l.value.text), src)
     ELSE /\ pc' = "idle"
          /\ dispatch' = NoDispatch
          /\ ev' = l.ev \o <<PrintLog("[Note] Wake word not present", <<>>)>>

\* lines 318-347: one listen at the top of the loop and what follows it, up to
\* the next listen
ListenIdle ==
  /\ pc = "idle"
  /\ \E r \in ListenOutcomes, src \in Sources : IdleHeard(ListenFromMic(r), src)
  /\ attempt' = 0
  /\ follow' = None
  /\ last' = "idle"
  /\ silent' = 0
  /\ followCalls' = 0

\* lines 334-337: the follow-up has been handled, h is what handle_user_command
\* returned and did
FollowDispatch(l, src, h) ==
  /\ pc' = AfterDispatch(h.ret)
  /\ dispatch' = Dispatched("followup", l.value.text, src, h)
  /\ ev' = l.ev \o h.ev
  /\ attempt' = attempt
  /\ silent' = silent
  /\ followCalls' = followCalls + 1

\* variant: a follow-up without the wake word is treated as not heard
FollowHeardNeedsWakeWord(l, src) ==
  /\ follow' = l.value
  /\ IF Truthy(l.value) /\ Contains(l.value.text, WAKE_WORD)
     THEN FollowDispatch(l, src, HandleUserCommand(l.value.text, src))
     ELSE /\ pc' = IF MoreAttempts(attempt) THEN "followup" ELSE "idle"
          /\ dispatch' = NoDispatch
          /\ ev' = l.ev \o <<Speak("I didn't catch that. Could you say it again?",
                                   <<>>, TRUE)>>
          /\ attempt' = attempt + 1
          /\ silent' = silent + 1
          /\ followCalls' = followCalls

\* lines 332-339: l is what listen_from_mic returned and did
FollowHeard(l, src) ==
  /\ follow' = l.value
  /\ IF Truthy(l.value)
     THEN FollowDispatch(l, src, HandleUserCommand(l.value.text, src))
     ELSE /\ pc' = IF MoreAttempts(attempt) THEN "followup" ELSE "idle"
          /\ dispatch' = NoDispatch
          /\ ev' = l.ev \o <<Speak("I didn't catch that. Could you say it again?",
                                   <<>>, TRUE)>>
          /\ attempt' = attempt + 1
          /\ silent' = silent + 1
          /\ followCalls' = followCalls

\* lines 331-340: one iteration of the retry loop
ListenFollow ==
  /\ pc = "followup"
  /\ \E r \in ListenOutcomes, src \in Sources : FollowHeard(ListenFromMic(r), src)
  /\ last' = "followup"
  /\ UNCHANGED spoken

\* lines 349-352: the KeyboardInterrupt is caught, announced, and the process
\* exits
Stopping ==
  <<PrintLog("[User interrupted]", <<>>), Speak("Okay, stopping now. Bye!", <<>>, TRUE)>>

\* what the step from the listen at line 318 does when nothing interrupts it
IdleStepEffects(l, src) ==
  IF ~Truthy(l.value) THEN l.ev
  ELSE IF ~Contains(l.value.text, WAKE_WORD)
  THEN l.ev \o <<PrintLog("[Note] Wake word not present", <<>>)>>
  ELSE IF AfterWakeWord(l.value.text) = <<>>
  THEN l.ev \o <<Speak("Yes? What can I help you with?", <<>>, TRUE)>>
  ELSE l.ev \o HandleUserCommand(AfterWakeWord(l.value.text), src).ev

\* what one iteration of the retry loop does when nothing interrupts it
FollowStepEffects(l, src) ==
  IF Truthy(l.value) THEN l.ev \o HandleUserCommand(l.value.text, src).ev
  ELSE l.ev \o <<Speak("I didn't catch that. Could you say it again?", <<>>, TRUE)>>

\* the step is cut short after some of its effects es and the handler at
\* line 349 runs
InterruptedAt(es) ==
  \E k \in 0..Len(es) : ev' = SubSeq(es, 1, k) \o Stopping

\* Ctrl-C while the greeting at line 313 is spoken: line 313 is before the try
\* of line 315, so the KeyboardInterrupt leaves main uncaught
InterruptGreeting ==
  /\ pc = "start"
  /\ pc' = "killed"
  /\ \E k \in 0..1 : ev' = SubSeq(<<Speak("Hi - I'm your assistant", <<>>, TRUE)>>, 1, k)
  /\ last' = "interrupt"
  /\ UNCHANGED <<attempt, spoken, follow, dispatch, silent, followCalls>>

\* Ctrl-C during the listen at line 318 or during what follows it, up to the
\* next listen; a call of handle_user_command that is cut short does not return
InterruptIdle ==
  /\ pc = "idle"
  /\ \E r \in ListenOutcomes, src \in Sources :
       InterruptedAt(IdleStepEffects(ListenFromMic(r), src))
  /\ pc' = "exited"
  /\ dispatch' = NoDispatch
  /\ attempt' = 0
  /\ follow' = None
  /\ last' = "interrupt"
  /\ silent' = 0
  /\ followCalls' = 0
  /\ UNCHANGED spoken

\* Ctrl-C during an iteration of the retry loop
InterruptFollow ==
  /\ pc = "followup"
  /\ \E r \in ListenOutcomes, src \in Sources :
       InterruptedAt(FollowStepEffects(ListenFromMic(r), src))
  /\ pc' = "exited"
  /\ dispatch' = NoDispatch
  /\ last' = "interrupt"
  /\ UNCHANGED <<attempt, spoken, follow, silent, followCalls>>

\* a KeyboardInterrupt at any point of main
Interrupt == InterruptGreeting \/ InterruptIdle \/ InterruptFollow

Next == Greet \/ ListenIdle \/ ListenFollow \/ Interrupt

Spec == Init /\ [][Next]_vars

\* ------------------------------------------------------------------
\* handle_user_command on its own: one call with a command text built from
\* an optional leading phrase and up to MaxWords words, or taken from a list
\* of further texts.
\* ------------------------------------------------------------------
MaxWords == 3

Leads ==
  {<<>>,
   <<"w","h","a","t"," ","i","s">>,
   <<"d","e","f","i","n","e">>,
   <<"c","a","l","c","u","l","a","t","e">>}

Words ==
  {<<"m","o","o","n">>,
   <<"t","h","e">>,
   <<"s","t","o","p">>,
   <<"o","p","e","n"," ","y","o","u","t","u","b","e">>,
   <<"7">>,
   <<"0">>,
   <<"t","i","m","e","s">>,
   <<"/">>,
   <<"%">>}

RECURSIVE JoinWords(_, _)
JoinWords(ws, i) ==
  IF i > Len(ws) THEN <<>>
  ELSE IF i = Len(ws) THEN ws[i]
  ELSE ws[i] \o <<" ">> \o JoinWords(ws, i + 1)

Bodies == {JoinWords(ws, 1) : ws \in UNION {[1..n -> Words] : n \in 0..MaxWords}}

MoreTexts ==
  {<<"w","h","a","t"," ","i","s"," ","2","3"," ","t","i","m","e","s"," ","7">>,
   <<"c","a","l","c","u","l","a","t","e"," ","(",")">>,
   <<"c","a","l","c","u","l","a","t","e"," ",".",".",".">>,
   <<"w","h","a","t"," ","i","s"," ","2","(","3",")">>,
   <<"c","o","m","p","u","t","e"," ","7"," ","/","/"," ","2">>,
   <<"1","0"," ","/"," ","0">>,
   <<"1","0"," ","%"," ","0">>,
   <<"7"," ","/","/"," ","2">>,
   <<"2","(","3",")">>,
   <<"(",")">>,
   <<".",".",".">>,
   <<"2"," ","*","*"," ","-","1">>,
   <<"0"," ","*","*"," ","-","1">>,
   <<"x","y","z","z","y">>,
   <<"g","o","o","d","b","y","e">>,
   <<"e","x","i","t"," ","n","o","w">>,
   <<"q","u","i","t">>,
   <<"y","o","u","t","u","b","e">>,
   <<"g","o","o","g","l","e">>,
   <<"o","p","e","n"," ","g","o","o","g","l","e">>,
   <<"c","a","l","c","u","l","a","t","e"," ","1",",","0","0","0"," ","p","l","u","s"," ","2">>,
   <<"2"," ","p","l","u","s"," ","p","l","u","s"," ","3">>,
   <<"2"," ","p","l","u","s"," ","m","i","n","u","s"," ","3">>,
   <<"2"," ","t","o"," ","t","h","e"," ","p","o","w","e","r"," ","o","f"," ","m","i","n","u","s"," ","3">>,
   <<"2"," ","t","o"," ","t","h","e"," ","p","o","w","e","r"," ","o","f"," ","3">>,
   <<"d","e","f","i","n","e"," ","a"," ","t","h","e"," ","m","o","o","n">>,
   <<"t","e","l","l"," ","m","e"," ","a","b","o","u","t"," ","a","n"," ","a","p","p","l","e">>,
   <<"w","h","a","t","'","s"," ","u","p">>,
   <<"d","e","f","i","n","i","t","i","o","n"," ","o","f"," ","m","o","o","n">>,
   <<"(","7"," ","-"," ","7">>,
   <<"7"," ","+">>,
   <<"1",".","5"," ","t","i","m","e","s"," ","2">>,
   <<"7"," ","o","v","e","r"," ","2">>,
   <<"m","o","d","e","r","n"," ","a","r","t">>,
   <<"7"," ","m","o","d"," ","0">>,
   <<"7"," ","m","o","d","u","l","o"," ","2">>,
   <<"7"," ","d","i","v","i","d","e","d"," ","b","y"," ","0">>,
   <<"7"," ","m","u","l","t","i","p","l","i","e","d"," ","b","y"," ","7">>,
   <<"7"," ","m","i","n","u","s"," ","7">>,
   <<"e","v","a","l","u","a","t","e"," ","7">>,
   <<"c","o","m","p","u","t","e"," ","7"," ","%"," ","7">>,
   <<"-","7">>,
   <<" "," ","M","o","o","n"," "," ">>,
   <<"W","h","a","t"," ","I","s"," ","7"," ","T","i","m","e","s"," ","7">>,
   <<"S","t","o","p">>,
   <<"b","y","e"," ","7"," ","p","l","u","s"," ","7">>,
   <<"w","h","a","t"," ","i","s"," ","7"," ","p","l","u","s"," ","b","y","e">>,
   <<"p","l","e","a","s","e"," ","o","p","e","n"," ","y","o","u","t","u","b","e"," ","7"," ","t","i","m","e","s"," ","7">>,
   <<"d","e","f","i","n","e"," ","s","t","o","p","w","a","t","c","h">>,
   <<" ">>,
   <<"(","7"," ","+"," ","7",")"," ","t","i","m","e","s"," ","0">>,
   <<"7"," ","*"," ","(","0"," ","-"," ","7",")">>,
   <<"7",".","5"," ","%"," ","2">>,
   <<"0","0","7">>,
   <<"7"," ","%"," ","-","2">>,
   <<"2","(",")">>}

CommandTexts ==
  {JoinWords(<<l, b>>, 1) : l \in Leads \ {<<>>}, b \in Bodies \ {<<>>}}
    \cup Leads \cup Bodies \cup MoreTexts

InitCmd ==
  /\ pc = "call"
  /\ attempt = 0
  /\ spoken = None
  /\ follow = None
  /\ \E c \in CommandTexts :
       dispatch = [called |-> FALSE, from |-> "direct", text |-> c, src |-> "", ret |-> "",
                   ev |-> <<>>]
  /\ ev = <<>>
  /\ last = "init"
  /\ silent = 0
  /\ followCalls = 0

\* the call has returned: h is what handle_user_command returned and did
Called(src, h) ==
  /\ dispatch' = Dispatched("direct", dispatch.text, src, h)
  /\ ev' = h.ev

\* handle_user_command(command_text) with one of the lookup outcomes
CallHandler ==
  /\ pc = "call"
  /\ \E src \in Sources : Called(src, HandleUserCommand(dispatch.text, src))
  /\ pc' = "called"
  /\ last' = "call"
  /\ UNCHANGED <<attempt, spoken, follow, silent, followCalls>>

NextCmd == CallHandler

SpecCmd == InitCmd /\ [][NextCmd]_vars

\* ------------------------------------------------------------------
\* Properties
\* ------------------------------------------------------------------
\* some effect of the sequence is a message spoken aloud
SpokeAloud(es) == \E i \in 1..Len(es) : es[i].e = "speak" /\ es[i].aloud

\* some effect of the sequence is of kind e
Did(es, e) == \E i \in 1..Len(es) : es[i].e = e

\* some effect of the sequence is the message tag
Said(es, tag) == \E i \in 1..Len(es) : es[i].e = "speak" /\ es[i].tag = tag

\* index of the first occurrence of the wake word in x, when x is remainder r
\* after that occurrence, up to surrounding whitespace
WakeThen(x, r) ==
  LET n == Len(WAKE_WORD)
  IN \E i \in 1..(Len(x) - n + 1) :
       /\ SubSeq(x, i, i + n - 1) = WAKE_WORD
       /\ \A j \in 1..(i - 1) : SubSeq(x, j, j + n - 1) # WAKE_WORD
       /\ Strip(SubSeq(x, i + n, Len(x))) = r

\* C1: an utterance heard at the top of the loop that holds the wake word and
\* nothing after it is answered with the prompt and no command is handled;
\* once MAX_RETRIES follow-up listens in a row have returned no speech the
\* loop is back at the listen that requires the wake word and
\* handle_user_command has not been called since the wake word was heard.
C1_BareWakeThenSilence ==
  /\ (last = "idle" /\ Truthy(spoken) /\ WakeThen(spoken.text, <<>>)) =>
       /\ pc = "followup"
       /\ ~dispatch.called
       /\ Len(ev) > 0
       /\ ev[Len(ev)] = Speak("Yes? What can I help you with?", <<>>, TRUE)
  /\ silent = MAX_RETRIES =>
       /\ pc = "idle"
       /\ followCalls = 0
       /\ ~dispatch.called
       /\ WakeThen(spoken.text, <<>>)

C1_Witness == silent = MAX_RETRIES /\ last = "followup" /\ pc = "idle"

\* C2: an utterance heard at the top of the loop without the wake word is never
\* handed to handle_user_command; a command is handled only as the non-empty
\* text after the first occurrence of the wake word, or as the whole utterance
\* heard in the retry loop.
C2_WakeWordGuard ==
  /\ (last = "idle" /\ ~(Truthy(spoken) /\ Contains(spoken.text, WAKE_WORD))) =>
       ~dispatch.called
  /\ dispatch.called =>
       \/ /\ dispatch.from = "idle"
          /\ last = "idle"
          /\ Truthy(spoken)
          /\ dispatch.text # <<>>
          /\ WakeThen(spoken.text, dispatch.text)
       \/ /\ dispatch.from = "followup"
          /\ last = "followup"
          /\ Truthy(follow)
          /\ dispatch.text = follow.text

C2_Witness ==
  /\ dispatch.called
  /\ dispatch.from = "idle"
  /\ Contains(dispatch.text, WAKE_WORD)

\* C3: every handled command that does not end in exit has a response spoken
\* aloud, returns None, and leaves the loop at the listen at the top.
C3_AlwaysAnswersAndContinues ==
  (dispatch.called /\ dispatch.from # "direct" /\ dispatch.ret # "exit") =>
    /\ SpokeAloud(dispatch.ev)
    /\ dispatch.ret = "None"
    /\ pc = "idle"

C3_Witness ==
  /\ dispatch.called
  /\ dispatch.from = "followup"
  /\ Did(dispatch.ev, "duckduckgo_instant_answer")
  /\ dispatch.src = "none"
  /\ Said(dispatch.ev, "Sorry, I didn't quite understand")
  /\ pc = "idle"

\* the last step handled a command that returned "exit"
Exited == dispatch.called /\ dispatch.ret = "exit"

\* C4: when a handled command returns "exit", from the top of the loop or from
\* the retry loop, main has returned, and no step is taken after that.
C4_ExitEndsSession ==
  /\ [](Exited => pc = "returned")
  /\ [][~Exited /\ pc # "returned"]_vars

C4_Witness == Exited /\ dispatch.from = "followup" /\ pc = "returned"

\* the handled command as the handler sees it: stripped and in lower case
Text == Lower(Strip(dispatch.text))

\* a definition lookup was made (lookup_definition got past its empty check)
LookedUp(es) == Did(es, "wikipedia_summary") \/ Did(es, "duckduckgo_instant_answer")

\* a definition lookup was made for the term
LookedUpTerm(es, term) ==
  \E i \in 1..Len(es) : es[i].e = "wikipedia_summary" /\ es[i].s = term

ExitWordsOfClaim ==
  {<<"e","x","i","t">>,
   <<"q","u","i","t">>,
   <<"s","t","o","p">>,
   <<"g","o","o","d","b","y","e">>,
   <<"b","y","e">>}

\* C5: a command that contains exit, quit, stop, goodbye or bye returns "exit"
\* and neither opens the browser, nor evaluates an expression, nor looks up a
\* definition, whatever else it contains.
C5_ExitFirst ==
  (dispatch.called /\ \E w \in ExitWordsOfClaim : Contains(Text, w)) =>
    /\ dispatch.ret = "exit"
    /\ ~Did(dispatch.ev, "open")
    /\ ~Did(dispatch.ev, "safe_eval")
    /\ ~LookedUp(dispatch.ev)

C5_Witness ==
  /\ dispatch.called
  /\ StartsWith(Text, <<"w","h","a","t"," ","i","s"," ">>)
  /\ Contains(Text, OPEN_YOUTUBE)
  /\ Contains(Text, <<"7">>)
  /\ Contains(Text, <<"s","t","o","p">>)
  /\ dispatch.ret = "exit"

WhatIs == <<"w","h","a","t"," ","i","s"," ">>

\* what follows "what is " in the handled command, normalised
WhatIsExpression == Normalize(Strip(Drop(Text, Len(WhatIs) + 1)))

Whitelist == {"0","1","2","3","4","5","6","7","8","9","+","-","*","/","(",")","."," ","%"}

InWhitelist(e) == \A i \in 1..Len(e) : e[i] \in Whitelist

\* C6: a command that begins with "what is " and whose remainder, normalised,
\* passes the whitelist and evaluates, has the result spoken and nothing else
\* done: no definition lookup; "what is 23 times 7" speaks 161.
C6_ArithmeticBeforeDefinition ==
  /\ (/\ dispatch.called
      /\ StartsWith(Text, WhatIs)
      /\ InWhitelist(WhatIsExpression)
      /\ SafeEval(WhatIsExpression).ok) =>
       /\ dispatch.ret = "None"
       /\ Len(dispatch.ev) = 2
       /\ dispatch.ev[1].e = "safe_eval"
       /\ dispatch.ev[2].e = "speak"
       /\ dispatch.ev[2].tag = "The result is"
       /\ dispatch.ev[2].aloud
       /\ ~LookedUp(dispatch.ev)
  /\ (dispatch.called /\ Text = <<"w","h","a","t"," ","i","s"," ","2","3"," ","t","i","m","e","s"," ","7">>) =>
       dispatch.ev[2].s = <<"1","6","1">>

C6_Witness ==
  /\ dispatch.called
  /\ Text = <<"w","h","a","t"," ","i","s"," ","2","3"," ","t","i","m","e","s"," ","7">>
  /\ dispatch.ev[2].tag = "The result is"
  /\ dispatch.ev[2].s = <<"1","6","1">>

\* safe_eval was called and raised
EvalFailed(es) == \E i \in 1..Len(es) : es[i].e = "safe_eval" /\ es[i].tag # "ok"

\* C7: when the expression of an arithmetic-looking command fails to evaluate,
\* the handler still returns None, speaks no result, and goes on with the
\* definition prefixes and then the short-phrase rule.
C7_FailedArithmeticFallsThrough ==
  (dispatch.called /\ EvalFailed(dispatch.ev)) =>
    /\ dispatch.ret = "None"
    /\ ~Said(dispatch.ev, "The result is")
    /\ SpokeAloud(dispatch.ev)
    /\ IF StartsWithAny(Text, DEFINITION_PREFIXES)
       THEN \/ Said(dispatch.ev, "Searching for")
            \/ Said(dispatch.ev, "What would you like me to define?")
       ELSE IF TokenCount(Text) <= 3
       THEN LookedUpTerm(dispatch.ev, Text)
       ELSE /\ Said(dispatch.ev, "Sorry, I didn't quite understand")
            /\ ~LookedUp(dispatch.ev)

C7_Witness ==
  /\ dispatch.called
  /\ Text = <<"1","0"," ","%"," ","0">>
  /\ dispatch.ev[1].e = "safe_eval"
  /\ dispatch.ev[1].tag = "ZeroDivisionError"
  /\ LookedUpTerm(dispatch.ev, Text)

\* a text of one to three tokens that none of the rules before the
\* short-phrase rule took: no exit word, no site, no spoken result, no
\* definition prefix
ShortUnmatched ==
  /\ dispatch.called
  /\ Text # <<>>
  /\ TokenCount(Text) <= 3
  /\ ~ContainsAny(Text, EXIT_WORDS)
  /\ ~Did(dispatch.ev, "open")
  /\ ~Said(dispatch.ev, "The result is")
  /\ ~StartsWithAny(Text, DEFINITION_PREFIXES)

\* C8 as stated: a short unmatched text is looked up as a definition and is
\* never answered as not understood, whatever the lookup returns.
C8_ShortPhraseNeverUnknown ==
  ShortUnmatched =>
    /\ LookedUpTerm(dispatch.ev, Text)
    /\ ~Said(dispatch.ev, "Sorry, I didn't quite understand")

\* C8 amended: a short unmatched text is looked up as a definition;
\* when the lookup finds one it is spoken, and when it finds none the handler
\* gives the same answer as for a text it did not understand.
C8_ShortPhraseTriesDefinition ==
  ShortUnmatched =>
    /\ LookedUpTerm(dispatch.ev, Text)
    /\ dispatch.src # "none" =>
         /\ Said(dispatch.ev, "definition")
         /\ ~Said(dispatch.ev, "Sorry, I didn't quite understand")
    /\ dispatch.src = "none" =>
         /\ Said(dispatch.ev, "Sorry, I didn't quite understand")
         /\ ~Said(dispatch.ev, "definition")

C8_Witness ==
  /\ ShortUnmatched
  /\ TokenCount(Text) = 3
  /\ dispatch.src = "none"
  /\ LookedUpTerm(dispatch.ev, Text)
  /\ Said(dispatch.ev, "Sorry, I didn't quite understand")

\* C9: safe_eval is only ever called on an expression made of whitelisted
\* characters; when the normalised expression of a command has a character
\* outside the whitelist nothing is evaluated and no result is spoken.
C9_WhitelistGate ==
  dispatch.called =>
    /\ \A i \in 1..Len(dispatch.ev) :
         dispatch.ev[i].e = "safe_eval" => InWhitelist(dispatch.ev[i].s)
    /\ ~InWhitelist(Normalize(StripTrigger(Text))) =>
         /\ ~Did(dispatch.ev, "safe_eval")
         /\ ~Said(dispatch.ev, "The result is")

C9_Witness ==
  /\ dispatch.called
  /\ Text = <<"c","a","l","c","u","l","a","t","e"," ","1",",","0","0","0"," ","p","l","u","s"," ","2">>
  /\ ~Did(dispatch.ev, "safe_eval")
  /\ Len(dispatch.ev) > 0
  /\ dispatch.ev[1].tag = "[Arithmetic] Expression contains unsafe characters"

\* the tree holds only numbers and the eight operators
RECURSIVE Closed(_)
Closed(node) ==
  IF node.k = "Constant" THEN node.v.t \in {"int", "float"}
  ELSE IF node.k = "BinOp"
  THEN /\ node.op \in {"Add", "Sub", "Mult", "Div", "Mod", "Pow"}
       /\ Closed(node.left)
       /\ Closed(node.right)
  ELSE IF node.k = "UnaryOp"
  THEN node.op \in {"USub", "UAdd"} /\ Closed(node.operand)
  ELSE FALSE

\* C10: safe_eval returns a number only for a tree made of numbers and the
\* operators Add, Sub, Mult, Div, Mod, Pow, USub, UAdd; a tree that parses but
\* holds anything else makes it raise.
C10_ClosedOperatorSet ==
  dispatch.called =>
    \A i \in 1..Len(dispatch.ev) :
      (dispatch.ev[i].e = "safe_eval" /\ dispatch.ev[i].tag = "ok") =>
        /\ AstParse(dispatch.ev[i].s).ok
        /\ Closed(AstParse(dispatch.ev[i].s).node)

C10_Witness ==
  /\ dispatch.called
  /\ Text = <<"7"," ","/","/"," ","2">>
  /\ AstParse(Text).ok
  /\ ~Closed(AstParse(Text).node)
  /\ dispatch.ev[1].e = "safe_eval"
  /\ dispatch.ev[1].tag = "ValueError"

\* the expressions the handler built: passed to safe_eval, or logged as
\* rejected by the gate
Expressions(es) ==
  {es[i].s : i \in {j \in 1..Len(es) : es[j].e = "safe_eval" \/ es[j].e = "print"}}

\* C11: normalising the expression a second time gives the expression the
\* handler built by normalising once, also when operator words are adjacent
\* ("2 plus plus 3", "2 plus minus 3").
C11_NormalizeIdempotent ==
  dispatch.called =>
    \A x \in Expressions(dispatch.ev) : Normalize(x) = x

\* pad, replace in the order of the table, trim
NormalizeInOrder(table, expr) ==
  Strip(ApplyReplacements(<<" ">> \o expr \o <<" ">>, table, 1))

\* the ten replacements in the order: multiplied by, divided by, to the power
\* of, power of, plus, minus, times, over, modulo, mod
ListedOrder == REPLACEMENTS_LongerFirst

\* the ten replacements in the order: plus, minus, times, multiplied by,
\* divided by, over, mod, modulo, to the power of, power of
DictOrder == [i \in 1..10 |-> ListedOrder[<<5, 6, 7, 1, 2, 8, 10, 9, 3, 4>>[i]]]

\* C12 as stated: the expression the handler builds is the one the replacements
\* give in the order multiplied by, divided by, to the power of, power of,
\* plus, minus, times, over, modulo, mod.
C12_ListedReplacementOrder ==
  dispatch.called =>
    \A x \in Expressions(dispatch.ev) :
      x = NormalizeInOrder(ListedOrder, StripTrigger(Text))

\* C12 amended: the expression the handler builds is the one the replacements
\* give in the order plus, minus, times, multiplied by, divided by, over, mod,
\* modulo, to the power of, power of; "2 to the power of minus 3" becomes
\* "2**- 3" and evaluates.
C12_DictReplacementOrder ==
  /\ dispatch.called =>
       \A x \in Expressions(dispatch.ev) :
         x = NormalizeInOrder(DictOrder, StripTrigger(Text))
  /\ (dispatch.called /\ Text = <<"2"," ","t","o"," ","t","h","e"," ","p","o","w","e","r"," ","o","f"," ","m","i","n","u","s"," ","3">>) =>
       /\ Expressions(dispatch.ev) = {<<"2","*","*","-"," ","3">>}
       /\ Said(dispatch.ev, "The result is")

C12_Witness ==
  /\ dispatch.called
  /\ Text = <<"2"," ","t","o"," ","t","h","e"," ","p","o","w","e","r"," ","o","f"," ","m","i","n","u","s"," ","3">>
  /\ dispatch.ev[1].e = "safe_eval"
  /\ dispatch.ev[1].s = <<"2","*","*","-"," ","3">>
  /\ dispatch.ev[1].tag = "ok"
  /\ dispatch.ev[1].s # NormalizeInOrder(ListedOrder, Text)

\* the arithmetic attempt is entered for the handled command
ArithmeticEntered ==
  /\ dispatch.called
  /\ dispatch.ret # "exit"
  /\ ~Did(dispatch.ev, "open")
  /\ IsProbablyArithmetic(Text) \/ StartsWithAny(Text, ARITHMETIC_STARTS)

HasComma(e) == \E i \in 1..Len(e) : e[i] = ","

\* C13: an expression whose only characters outside the whitelist are commas
\* passes the gate, is evaluated with the commas removed and has its result
\* spoken; "calculate 1,000 plus 2" gives 1002.
C13_CommasStripped ==
  /\ (/\ ArithmeticEntered
      /\ HasComma(Normalize(StripTrigger(Text)))
      /\ InWhitelist(Replace(Normalize(StripTrigger(Text)), <<",">>, <<>>))
      /\ SafeEval(Normalize(StripTrigger(Text))).ok) =>
       /\ Did(dispatch.ev, "safe_eval")
       /\ Said(dispatch.ev, "The result is")
  /\ (dispatch.called /\ Text = <<"c","a","l","c","u","l","a","t","e"," ","1",",","0","0","0"," ","p","l","u","s"," ","2">>) =>
       \E i \in 1..Len(dispatch.ev) :
         /\ dispatch.ev[i].e = "speak"
         /\ dispatch.ev[i].tag = "The result is"
         /\ dispatch.ev[i].s = <<"1","0","0","2">>

\* the number of effects of kind e
Times(es, e) == Cardinality({i \in 1..Len(es) : es[i].e = e})

\* the five outcomes, read off what the handler returned and did
IsExit == dispatch.ret = "exit" /\ Said(dispatch.ev, "Goodbye")

IsOpenSite == Did(dispatch.ev, "open")

IsArithmetic == Said(dispatch.ev, "The result is")

\* a definition answer: the definition, the miss after "Searching for", or the
\* question for the term
IsDefinition ==
  \/ Said(dispatch.ev, "definition")
  \/ Said(dispatch.ev, "I couldn't find a short definition")
  \/ Said(dispatch.ev, "What would you like me to define?")

\* the handler did not understand: the apology, or the request to repeat an
\* empty command
IsUnknown ==
  \/ Said(dispatch.ev, "Sorry, I didn't quite understand")
  \/ Said(dispatch.ev, "I didn't catch that")

Outcomes ==
  {o \in {"Exit", "OpenSite", "Arithmetic", "Definition", "Unknown"} :
     \/ o = "Exit" /\ IsExit
     \/ o = "OpenSite" /\ IsOpenSite
     \/ o = "Arithmetic" /\ IsArithmetic
     \/ o = "Definition" /\ IsDefinition
     \/ o = "Unknown" /\ IsUnknown}

\* C14: every call of the handler ends in exactly one of Exit, OpenSite,
\* Arithmetic, Definition, Unknown; it never speaks a result and looks up a
\* definition, opens the browser at most once and looks up at most once, also
\* when the arithmetic attempt failed and fell through.
C14_OneOutcome ==
  dispatch.called =>
    /\ Cardinality(Outcomes) = 1
    /\ dispatch.ret \in {"exit", "None"}
    /\ dispatch.ret = "exit" <=> IsExit
    /\ ~(IsArithmetic /\ LookedUp(dispatch.ev))
    /\ Times(dispatch.ev, "open") <= 1
    /\ Times(dispatch.ev, "wikipedia_summary") <= 1
    /\ Times(dispatch.ev, "duckduckgo_instant_answer") <= 1
    /\ Times(dispatch.ev, "safe_eval") <= 1

C14_Witness ==
  /\ dispatch.called
  /\ Text = <<"1","0"," ","/"," ","0">>
  /\ EvalFailed(dispatch.ev)
  /\ Times(dispatch.ev, "wikipedia_summary") = 1
  /\ Outcomes = {"Definition"}

\* C15: the re-prompt is spoken only when another follow-up listen comes after
\* it; when the last follow-up listen hears nothing the loop goes back to the
\* listen that needs the wake word without having spoken.
C15_SilentExhaustion ==
  /\ Said(ev, "I didn't catch that. Could you say it again?") => pc = "followup"
  /\ (last = "followup" /\ ~Truthy(follow) /\ pc = "idle") =>
       ~Said(ev, "I didn't catch that. Could you say it again?")

\* C16: a follow-up that is understood is handed to the handler once, as it was
\* heard, with or without the wake word in it, within MAX_RETRIES listens; the
\* loop is then back at the listen that needs the wake word unless the handler
\* returned "exit", and no follow-up listen comes after the dispatch.
C16_FollowUpDispatch ==
  /\ (last = "followup" /\ Truthy(follow)) =>
       /\ dispatch.called
       /\ dispatch.from = "followup"
       /\ dispatch.text = follow.text
       /\ followCalls = 1
       /\ silent < MAX_RETRIES
       /\ pc = IF dispatch.ret = "exit" THEN "returned" ELSE "idle"
  /\ (last = "followup" /\ ~Truthy(follow)) => ~dispatch.called /\ followCalls = 0
  /\ followCalls <= 1
  /\ pc = "followup" => followCalls = 0 /\ silent < MAX_RETRIES

C16_Witness ==
  /\ last = "followup"
  /\ Truthy(follow)
  /\ silent = MAX_RETRIES - 1
  /\ dispatch.called
  /\ Contains(dispatch.text, WAKE_WORD)
  /\ dispatch.text # AfterWakeWord(dispatch.text)
  /\ pc = "idle"

\* what follows the definition prefix of t
Remainder(t) ==
  LET i == CHOOSE i \in 1..Len(DEFINITION_PREFIXES) : StartsWith(t, DEFINITION_PREFIXES[i])
  IN Strip(Drop(t, Len(DEFINITION_PREFIXES[i]) + 1))

\* r without its leading article, if it has one
OneArticleOff(r) ==
  LET arts == {<<"a"," ">>, <<"a","n"," ">>, <<"t","h","e"," ">>}
  IN IF \E a \in arts : StartsWith(r, a)
     THEN Drop(r, Len(CHOOSE a \in arts : StartsWith(r, a)) + 1)
     ELSE r

\* C17: the term of a prefixed definition query is what follows the prefix
\* with at most one leading article removed; "define a the moon" asks for
\* "the moon".
C17_OneArticleStripped ==
  /\ (dispatch.called /\ Said(dispatch.ev, "Searching for")) =>
       LookedUpTerm(dispatch.ev, Strip(OneArticleOff(Remainder(Text))))
  /\ (dispatch.called /\ Text = <<"d","e","f","i","n","e"," ","a"," ","t","h","e"," ","m","o","o","n">>) =>
       LookedUpTerm(dispatch.ev, <<"t","h","e"," ","m","o","o","n">>)

\* the definition prefixes said alone
BarePrefixes == {Strip(DEFINITION_PREFIXES[i]) : i \in 1..Len(DEFINITION_PREFIXES)}

\* C18: a command that is only a definition prefix ("define", "what is") is
\* answered with the question for the term, and nothing is looked up.
C18_EmptyTermPrompts ==
  (dispatch.called /\ Text \in BarePrefixes) =>
    /\ dispatch.ret = "None"
    /\ Said(dispatch.ev, "What would you like me to define?")
    /\ ~LookedUp(dispatch.ev)

\* the number of times the termination is announced in es
Announced(es) ==
  Cardinality({i \in 1..Len(es) :
                 es[i].e = "speak" /\ es[i].tag = "Okay, stopping now. Bye!" /\ es[i].aloud})

\* C19: a Ctrl-C at any point of main - during the greeting, a listen that
\* needs the wake word, a follow-up listen or the handling of a command - is
\* answered by one spoken announcement, the last thing done, and the process
\* has exited.
C19_InterruptAnnounced ==
  last = "interrupt" =>
    /\ pc = "exited"
    /\ Announced(ev) = 1
    /\ ev[Len(ev)] = Speak("Okay, stopping now. Bye!", <<>>, TRUE)

====
